---- MODULE Spec2Model ----
(***************************************************************************)
(* The incremental e-book build of dodo.py: the tasks it declares (their   *)
(* file_dep, targets and action bodies), the build directory they write,   *)
(* and the task runner that executes them.  The runner itself is not part  *)
(* of dodo.py; it is modelled from the specification (sections 4.2, 5, 7). *)
(***************************************************************************)
EXTENDS Integers, FiniteSets, Sequences, TLC

(* ---------------------------------------------------------------- bounds *)
NumEntries == 2      \* entries of book.yaml
MaxRuns == 2         \* build invocations in one behaviour
MaxChanges == 1      \* external changes between two invocations
MaxFaults == 1       \* injected failures (network, I/O, renderer) in one behaviour

VARIABLES
    fs,        \* the files: path -> [st: "absent" | "partial" | "full", mt: mtime]
    clock,     \* logical time of the last invocation start or external change
    phase,     \* "loading" (dodo.py is being imported) | "rejected" (the import
               \* raised) | "idle" | "running" | "aborted"
    goal,      \* what the running (or last) invocation was asked to build
    out,       \* task -> [res: what the runner did with it in the running (or last)
               \*          invocation, env: what its body met]
    prev,      \* task -> its outcome in the invocation before
    prevGoal,  \* the goal of the invocation before
    changes,   \* external changes made before the running (or next) invocation,
               \* since the one before it ended
    runs,      \* invocations started
    faults,    \* failures injected
    book,      \* the loaded configuration: the entries of the Book record
    declared,  \* the target paths the tasks declare for it
    content,   \* the parsed book.yaml the Book is constructed from
    response,  \* entry -> what the export endpoint answered to its fetch
    raw_html,  \* entry -> the text of its .raw.html file
    completed, \* the entries in the order their fetches completed
    epub_book  \* the packaged document

build == <<fs, clock, phase, goal, out, prev, prevGoal, changes, runs, faults>>
packaging == <<response, raw_html, completed, epub_book>>
records == <<book, declared, content, packaging>>
vars == <<build, records>>

(* ------------------------------------------------------- book and paths *)
Entries == 1..NumEntries

F(k, e) == [kind |-> k, e |-> e]
T(k, e) == [kind |-> k, e |-> e]

book_yaml == F("book.yaml", 0)
cover_jinja == F("templates/cover.jinja", 0)
chapter_jinja == F("templates/chapter.jinja", 0)
style_css == F("stylesheets/style.css", 0)
paper_fibers == F("images/paper-fibers.png", 0)

metadata_target(e) == F(".yaml", e)
raw_html_target(e) == F(".raw.html", e)
readable_html_target(e) == F(".readable.html", e)
emoji_target(e) == F("emoji", e)
cover_html_target == F("cover.html", 0)
cover_image_target == F("cover.png", 0)
epub_target == F("book.epub", 0)

InputFiles == {book_yaml, cover_jinja, chapter_jinja, style_css, paper_fibers}
TargetFiles ==
    {cover_html_target, cover_image_target, epub_target}
    \cup {metadata_target(e) : e \in Entries}
    \cup {raw_html_target(e) : e \in Entries}
    \cup {readable_html_target(e) : e \in Entries}
    \cup {emoji_target(e) : e \in Entries}
Files == InputFiles \cup TargetFiles

(* ------------------------------------------------------ declared tasks *)
task_entries == T("entries", 0)
task_raw_html(e) == T("raw_html", e)
task_emoji(e) == T("emoji", e)
task_readable_html(e) == T("readable_html", e)
task_cover_html == T("cover:html", 0)
task_cover_image == T("cover:image", 0)
task_epub == T("epub", 0)

Tasks ==
    {task_entries, task_cover_html, task_cover_image, task_epub}
    \cup {task_raw_html(e) : e \in Entries}
    \cup {task_emoji(e) : e \in Entries}
    \cup {task_readable_html(e) : e \in Entries}

\* Mutant: the epub task forgets to declare the cover image.
EpubFileDep_without_cover ==
    {raw_html_target(e) : e \in Entries}
    \cup {emoji_target(e) : e \in Entries}
    \cup {style_css, chapter_jinja}

EpubFileDep ==
    {raw_html_target(e) : e \in Entries}
    \cup {emoji_target(e) : e \in Entries}
    \cup {cover_image_target, style_css, chapter_jinja}

FileDep(t) ==
    CASE t.kind = "entries" -> {book_yaml}
      [] t.kind = "raw_html" -> {metadata_target(t.e)}
      [] t.kind = "emoji" -> {metadata_target(t.e)}
      [] t.kind = "readable_html" -> {raw_html_target(t.e)}
      [] t.kind = "cover:html" -> {book_yaml, cover_jinja}
      [] t.kind = "cover:image" -> {cover_html_target}
      [] t.kind = "epub" -> EpubFileDep

Targets(t) ==
    CASE t.kind = "entries" -> {metadata_target(e) : e \in Entries}
      [] t.kind = "raw_html" -> {raw_html_target(t.e)}
      [] t.kind = "emoji" -> {emoji_target(t.e)}
      [] t.kind = "readable_html" -> {readable_html_target(t.e)}
      [] t.kind = "cover:html" -> {cover_html_target}
      [] t.kind = "cover:image" -> {cover_image_target}
      [] t.kind = "epub" -> {epub_target}

(* -------------------------------------------------------- file system *)
Absent == [st |-> "absent", mt |-> 0]
Exists(f) == fs[f].st # "absent"

\* Modification times are logical: the clock advances when an invocation
\* starts and at each external change.  The writes of one invocation follow
\* the dependency order, so within an invocation an input is never strictly
\* newer than a target written from it; they carry the invocation's time.

\* open(path, "w"): the file exists, empty, from this moment
Opened(files, S) == [f \in Files |-> IF f \in S THEN [st |-> "partial", mt |-> clock] ELSE files[f]]
\* open(path, "w") followed by the complete write and close
Written(files, S) == [f \in Files |-> IF f \in S THEN [st |-> "full", mt |-> clock] ELSE files[f]]

(* ----------------------------------------------------------- strings *)
\* Strings are sequences of one-character strings.
Whitespace == {" "}

Lower(c) ==
    CASE c = "A" -> "a" [] c = "B" -> "b" [] c = "E" -> "e" [] c = "F" -> "f" [] OTHER -> c
LowerStr(s) == [i \in 1..Len(s) |-> Lower(s[i])]

RECURSIVE Drop(_, _)
\* s without its leading characters that are in S
Drop(s, S) == IF s # <<>> /\ Head(s) \in S THEN Drop(Tail(s), S) ELSE s

RECURSIVE RStrip(_)
RStrip(s) ==
    IF s # <<>> /\ s[Len(s)] \in Whitespace THEN RStrip(SubSeq(s, 1, Len(s) - 1)) ELSE s

\* str.find for a set of characters: the first position of one of them, 0 if none
Find(s, S) ==
    LET hits == {i \in 1..Len(s) : s[i] \in S}
    IN  IF hits = {} THEN 0 ELSE CHOOSE i \in hits : \A j \in hits : i <= j

(* ------------------------------------------------------ configuration *)
\* Values of the parsed YAML document: a string, a list, or null.
Str(s) == [type |-> "str", val |-> s]
List(l) == [type |-> "list", val |-> l]
None == [type |-> "none", val |-> <<>>]

RECURSIVE ReSplit(_)
\* re.split(r"\s*,\s*", s): the pieces between the commas, the whitespace
\* around each comma consumed with it
ReSplit(s) ==
    LET k == Find(s, {","})
    IN  IF k = 0 THEN <<s>>
        ELSE <<RStrip(SubSeq(s, 1, k - 1))>>
             \o ReSplit(Drop(SubSeq(s, k + 1, Len(s)), Whitespace))

\* Entry.split_tags: a string is split, anything else is passed on
split_tags(v) == IF v.type = "str" THEN List(ReSplit(v.val)) ELSE v

\* The field types of Entry: each of title, emoji_url, emoji_name and url
\* is a str, tags (after split_tags) a list of str.  Nothing else is
\* validated.
ValidEntry(x) ==
    /\ x.title.type = "str"
    /\ x.emoji_url.type = "str"
    /\ x.emoji_name.type = "str"
    /\ split_tags(x.tags).type = "list"
    /\ x.url.type = "str"

\* Entry(**x)
Entry(x) ==
    [title |-> x.title.val, emoji_url |-> x.emoji_url.val, emoji_name |-> x.emoji_name.val,
     tags |-> split_tags(x.tags).val, url |-> x.url.val]

\* urlparse(url): scheme, netloc and path (the modelled URLs have no query
\* and no fragment; "?" and "#" end the netloc and the path all the same)
SchemeChars ==
    {"+", "-", ".",
     "a", "b", "c", "d", "e", "f", "g", "h", "i", "j", "k", "l", "m", "n", "o", "p", "q",
     "r", "s", "t", "u", "v", "w", "x", "y", "z", "A"}
SchemeEnd(url) ==
    LET i == Find(url, {":"})
    IN  IF /\ i > 1
           /\ url[1] \notin {"+", "-", "."}
           /\ \A j \in 1..(i - 1) : url[j] \in SchemeChars
        THEN i ELSE 0
AfterScheme(url) == SubSeq(url, SchemeEnd(url) + 1, Len(url))
HasNetloc(url) ==
    LET r == AfterScheme(url) IN Len(r) >= 2 /\ r[1] = "/" /\ r[2] = "/"
AfterSlashes(url) ==
    LET r == AfterScheme(url) IN IF HasNetloc(url) THEN SubSeq(r, 3, Len(r)) ELSE r
netloc(url) ==
    LET r == AfterSlashes(url)
        k == Find(r, {"/", "?", "#"})
    IN  IF ~HasNetloc(url) THEN <<>> ELSE IF k = 0 THEN r ELSE SubSeq(r, 1, k - 1)
url_path(url) ==
    LET r == AfterSlashes(url)
        p == SubSeq(r, Len(netloc(url)) + 1, Len(r))
        k == Find(p, {"?", "#"})
    IN  IF k = 0 THEN p ELSE SubSeq(p, 1, k - 1)
\* the host in lower case without the port; the empty string stands for
\* None (the modelled URLs have no user name and no bracketed address)
hostname(url) ==
    LET n == netloc(url)
        k == Find(n, {":"})
    IN  LowerStr(IF k = 0 THEN n ELSE SubSeq(n, 1, k - 1))

RECURSIVE Parts(_)
\* Path(path).parts without the root: the components between the slashes,
\* empty ones and "." dropped
Parts(s) ==
    IF s = <<>> THEN <<>>
    ELSE LET k == Find(s, {"/"})
             first == IF k = 0 THEN s ELSE SubSeq(s, 1, k - 1)
             rest == IF k = 0 THEN <<>> ELSE SubSeq(s, k + 1, Len(s))
         IN  IF first = <<>> \/ first = <<".">> THEN Parts(rest)
             ELSE <<first>> \o Parts(rest)

DocsHost == <<"d", "o", "c", "s", ".", "g", "o", "o", "g", "l", "e", ".", "c", "o", "m">>
Edit == <<"e", "d", "i", "t">>

\* Mutant: without the assert on the host.
google_drive_file_id_no_assert(entry) ==
    LET parts == Parts(url_path(entry.url))
        n == Len(parts)
    IN  IF n > 0 /\ parts[n] = Edit
        THEN [raised |-> FALSE, id |-> IF n > 1 THEN parts[n - 1] ELSE <<>>]
        ELSE [raised |-> FALSE, id |-> IF n > 0 THEN parts[n] ELSE <<>>]

\* Entry.google_drive_file_id: the assert on the host, then the last
\* component of the path, or the one before a final "edit"
google_drive_file_id(entry) ==
    LET parts == Parts(url_path(entry.url))
        n == Len(parts)
    IN  IF hostname(entry.url) # DocsHost THEN [raised |-> TRUE, id |-> <<>>]
        ELSE IF n > 0 /\ parts[n] = Edit
             THEN [raised |-> FALSE, id |-> IF n > 1 THEN parts[n - 1] ELSE <<>>]
             ELSE [raised |-> FALSE, id |-> IF n > 0 THEN parts[n] ELSE <<>>]

\* Book.from_yaml: every entry of the document becomes an Entry; the first
\* one that does not validate raises ValidationError
Validates(doc) == \A i \in DOMAIN doc : ValidEntry(doc[i])
from_yaml(doc) == [i \in DOMAIN doc |-> Entry(doc[i])]

(* ------------------------------------------------------- task bodies *)
\* Each body maps what its environment does to the files it leaves and to
\* how it ends: "done" (returned), "raised" (an exception left the body).
Returned(files, env) == [fs |-> files, res |-> "done", env |-> env]
Raised(files, env) == [fs |-> files, res |-> "raised", env |-> env]

\* write_entries: for each entry in order, open its metadata file and write
\* it; io = 0 when every write succeeds, else the entry whose write fails,
\* before (at = "open") or after (at = "write") its file was opened.
write_entries(io, at) ==
    IF io = 0 THEN Returned(Written(fs, {metadata_target(e) : e \in Entries}), "ok")
    ELSE LET before == Written(fs, {metadata_target(e) : e \in 1..(io - 1)})
         IN  IF at = "open" THEN Raised(before, "open_error")
             ELSE Raised(Opened(before, {metadata_target(io)}), "write_error")

\* Mutant: the target is opened before the request is sent.
download_html_open_first(e, env) ==
    CASE env = "assertion_error" -> Raised(Opened(fs, {raw_html_target(e)}), env)
      [] env = "ok" -> Returned(Written(fs, {raw_html_target(e)}), env)
      [] env = "transport_error" -> Raised(Opened(fs, {raw_html_target(e)}), env)
      [] env = "write_error" -> Raised(Opened(fs, {raw_html_target(e)}), env)

\* Mutant: the fetch rewrites the entry's metadata file as well.
download_html_rewriting_metadata(e, env) ==
    CASE env = "assertion_error" -> Raised(fs, env)
      [] env = "ok" -> Returned(Written(fs, {raw_html_target(e), metadata_target(e)}), env)
      [] env = "transport_error" -> Raised(fs, env)
      [] env = "write_error" -> Raised(Opened(fs, {raw_html_target(e)}), env)

\* download_html: the export URL is built from the entry's
\* google_drive_file_id, whose assert raises before anything is sent; the
\* request (and the lookup of GOOGLE_API_KEY) comes before the target is
\* opened; the response text is then written.
download_html(e, env) ==
    CASE env = "assertion_error" -> Raised(fs, env)
      [] env = "ok" -> Returned(Written(fs, {raw_html_target(e)}), env)
      [] env = "transport_error" -> Raised(fs, env)
      [] env = "write_error" -> Raised(Opened(fs, {raw_html_target(e)}), env)

download_emoji(e, env) ==
    CASE env = "ok" -> Returned(Written(fs, {emoji_target(e)}), env)
      [] env = "transport_error" -> Raised(fs, env)
      [] env = "write_error" -> Raised(Opened(fs, {emoji_target(e)}), env)

\* run_readability: reads the raw HTML, then calls readabilipy, whose import
\* is commented out: the name is undefined and the body always raises
\* before it opens its target.
run_readability(e) == Raised(fs, "name_error")

\* write_cover_html: template and background texture are read first, then
\* the target is opened and the rendering written.
write_cover_html(env) ==
    CASE env = "ok" -> Returned(Written(fs, {cover_html_target}), env)
      [] env = "write_error" -> Raised(Opened(fs, {cover_html_target}), env)

\* write_cover_image: subprocess.run without check: a renderer that exits
\* nonzero writes no screenshot and the body returns all the same; only a
\* renderer that cannot be started raises.
write_cover_image(env) ==
    CASE env = "ok" -> Returned(Written(fs, {cover_image_target}), env)
      [] env = "exit_nonzero" -> Returned(fs, env)
      [] env = "not_started" -> Raised(fs, env)

\* make_epub: reads the cover image, every entry's emoji and raw HTML and
\* the stylesheet (read_bytes/read_text raise on a missing file), then
\* writes the book.
MakeEpubReads ==
    {cover_image_target, style_css, chapter_jinja}
    \cup {emoji_target(e) : e \in Entries}
    \cup {raw_html_target(e) : e \in Entries}

make_epub ==
    IF \E f \in MakeEpubReads : ~Exists(f) THEN Raised(fs, "missing_input")
    ELSE Returned(Written(fs, {epub_target}), "ok")

\* The files each body reads.  The book (its title, its entries) is read
\* from book.yaml when dodo.py is imported; the fetch bodies read no file.
BodyReads(t) ==
    CASE t.kind = "entries" -> {book_yaml}
      [] t.kind = "raw_html" -> {book_yaml}
      [] t.kind = "emoji" -> {book_yaml}
      [] t.kind = "readable_html" -> {raw_html_target(t.e)}
      [] t.kind = "cover:html" -> {book_yaml, cover_jinja, paper_fibers}
      [] t.kind = "cover:image" -> {cover_html_target}
      [] t.kind = "epub" -> MakeEpubReads \cup {book_yaml}

(* ------------------------------------------------------------ runner *)
\* The tasks that produce a declared input of t.
TaskDep(t) == {p \in Tasks : Targets(p) \cap FileDep(t) # {}}

RECURSIVE Prerequisites(_)
Prerequisites(S) ==
    LET N == S \cup UNION {TaskDep(t) : t \in S}
    IN  IF N = S THEN S ELSE Prerequisites(N)

Goals == {"all", "epub"}
Selected(g) == IF g = "all" THEN Tasks ELSE Prerequisites({task_epub})

Min(S) == CHOOSE x \in S : \A y \in S : x <= y

\* Mutant: an input as old as the oldest target already makes it stale.
Stale_not_strict(t) ==
    \/ \E f \in Targets(t) : ~Exists(f)
    \/ /\ Targets(t) # {}
       /\ \E d \in FileDep(t) : fs[d].mt >= Min({fs[f].mt : f \in Targets(t)})

\* Section 4.2: a target is missing, or a declared input is strictly newer
\* than the oldest target.
Stale(t) ==
    \/ \E f \in Targets(t) : ~Exists(f)
    \/ /\ Targets(t) # {}
       /\ \E d \in FileDep(t) : fs[d].mt > Min({fs[f].mt : f \in Targets(t)})

Outcome(res, env) == [res |-> res, env |-> env]
Executed(o) == o.res \in {"done", "raised"}
Succeeded(o) == o.res \in {"uptodate", "done"}
Failed(o) == o.res = "raised"

Ready(t) ==
    /\ phase = "running"
    /\ out[t].res = "pending"
    /\ \A p \in TaskDep(t) : Succeeded(out[p])

\* The runner's step for task t: skip it when it is up to date, else run
\* its body, given as the set of results its environment allows.  When the
\* body raises, the runner either goes on with the tasks that do not depend
\* on t or aborts the invocation (section 5 allows either policy).
Step(t, results) ==
    /\ IF ~Stale(t)
       THEN /\ out' = [out EXCEPT ![t] = Outcome("uptodate", "none")]
            /\ UNCHANGED <<fs, faults, phase, changes>>
       ELSE \E r \in results :
            /\ r.cost = 0 \/ faults < MaxFaults
            /\ faults' = faults + r.cost
            /\ fs' = r.run.fs
            /\ out' = [out EXCEPT ![t] = Outcome(r.run.res, r.run.env)]
            /\ \/ phase' = "running" /\ changes' = changes
               \/ r.run.res = "raised" /\ phase' = "aborted" /\ changes' = {}
    /\ UNCHANGED <<clock, goal, prev, prevGoal, runs, records>>

Ok(run) == [run |-> run, cost |-> 0]
Fault(run) == [run |-> run, cost |-> 1]

FetchEnv == {"ok", "transport_error", "write_error"}
FetchCost(env, run) == IF env = "ok" THEN Ok(run) ELSE Fault(run)

RunEntries ==
    /\ Ready(task_entries)
    /\ Step(task_entries,
            {Ok(write_entries(0, "open"))}
            \cup {Fault(write_entries(io, at)) : io \in Entries, at \in {"open", "write"}})

RunRawHtml(e) ==
    /\ Ready(task_raw_html(e))
    /\ Step(task_raw_html(e),
            IF google_drive_file_id(book[e]).raised
            THEN {Ok(download_html(e, "assertion_error"))}
            ELSE {FetchCost(env, download_html(e, env)) : env \in FetchEnv})

RunEmoji(e) ==
    /\ Ready(task_emoji(e))
    /\ Step(task_emoji(e), {FetchCost(env, download_emoji(e, env)) : env \in FetchEnv})

RunReadableHtml(e) ==
    /\ Ready(task_readable_html(e))
    /\ Step(task_readable_html(e), {Ok(run_readability(e))})

RunCoverHtml ==
    /\ Ready(task_cover_html)
    /\ Step(task_cover_html, {Ok(write_cover_html("ok")), Fault(write_cover_html("write_error"))})

RunCoverImage ==
    /\ Ready(task_cover_image)
    /\ Step(task_cover_image,
            {Ok(write_cover_image("ok")), Fault(write_cover_image("exit_nonzero")),
             Fault(write_cover_image("not_started"))})

RunEpub ==
    /\ Ready(task_epub)
    /\ Step(task_epub, {Ok(make_epub)})

StartInvocation(g) ==
    /\ phase \in {"idle", "aborted"}
    /\ runs < MaxRuns
    /\ phase' = "running"
    /\ goal' = g
    /\ prevGoal' = goal
    /\ prev' = out
    /\ out' = [t \in Tasks |-> Outcome(IF t \in Selected(g) THEN "pending" ELSE "unselected", "none")]
    /\ clock' = clock + 1
    /\ runs' = runs + 1
    /\ UNCHANGED <<fs, faults, changes, records>>

\* Nothing is left to run: every task ran, was skipped, or waits below a
\* failed task.
Finished == phase = "running" /\ \A t \in Tasks : ~Ready(t)

\* The invocation ends when nothing is left to run.
EndInvocation ==
    /\ Finished
    /\ phase' = "idle"
    /\ changes' = {}
    /\ UNCHANGED <<fs, clock, goal, out, prev, prevGoal, runs, faults, records>>

(* ------------------------------------------------- external changes *)
Change(op, f) == [op |-> op, f |-> f]

\* External changes are explored after invocations that ran to their end.
CanChange ==
    /\ phase = "idle"
    /\ runs >= 1
    /\ runs < MaxRuns
    /\ Cardinality(changes) < MaxChanges

\* The user edits the configuration of entry e in book.yaml.
EditEntry(e) ==
    /\ CanChange
    /\ clock' = clock + 1
    /\ fs' = [fs EXCEPT ![book_yaml] = [st |-> "full", mt |-> clock + 1]]
    /\ changes' = changes \cup {Change("edit", F("entry", e))}
    /\ UNCHANGED <<phase, goal, out, prev, prevGoal, runs, faults, records>>

\* The user edits a template, the stylesheet or the background texture.
EditInput(f) ==
    /\ CanChange
    /\ clock' = clock + 1
    /\ fs' = [fs EXCEPT ![f] = [st |-> "full", mt |-> clock + 1]]
    /\ changes' = changes \cup {Change("edit", f)}
    /\ UNCHANGED <<phase, goal, out, prev, prevGoal, runs, faults, records>>

\* A target file is deleted from the build directory.
DeleteTarget(f) ==
    /\ CanChange
    /\ Exists(f)
    /\ fs' = [fs EXCEPT ![f] = Absent]
    /\ changes' = changes \cup {Change("delete", f)}
    /\ UNCHANGED <<clock, phase, goal, out, prev, prevGoal, runs, faults, records>>

(* ----------------------------------------------------- specification *)
InitRunner ==
    /\ fs = [f \in Files |-> IF f \in InputFiles THEN [st |-> "full", mt |-> 1] ELSE Absent]
    /\ clock = 1
    /\ goal = "none"
    /\ prevGoal = "none"
    /\ out = [t \in Tasks |-> Outcome("unselected", "none")]
    /\ prev = [t \in Tasks |-> Outcome("unselected", "none")]
    /\ changes = {}
    /\ runs = 0
    /\ faults = 0

\* Nothing fetched by content, nothing packaged.
InitPackaging ==
    /\ response = <<>>
    /\ raw_html = <<>>
    /\ completed = <<>>
    /\ epub_book = <<>>

InitBuild == InitRunner /\ InitPackaging /\ phase = "idle"

\* The configuration the build is explored with: every entry valid, its
\* url a document on the export platform.
DocsUrl ==
    <<"h", "t", "t", "p", "s", ":", "/", "/", "d", "o", "c", "s",
      ".", "g", "o", "o", "g", "l", "e", ".", "c", "o", "m", "/",
      "d", "o", "c", "u", "m", "e", "n", "t", "/", "d", "/", "x",
      "/", "e", "d", "i", "t">>
DefaultContent ==
    [e \in Entries |->
        [title |-> Str([i \in 1..e |-> "a"]), emoji_url |-> Str(<<"g", ".", "p", "n", "g">>),
         emoji_name |-> Str([i \in 1..e |-> "g"]), tags |-> List(<<>>), url |-> Str(DocsUrl)]]

\* dodo.py has been imported: the book is loaded, nothing has run.
Init ==
    /\ InitBuild
    /\ content = DefaultContent
    /\ book = from_yaml(content)
    /\ declared = <<>>

Next ==
    \/ \E g \in Goals : StartInvocation(g)
    \/ RunEntries
    \/ \E e \in Entries : RunRawHtml(e)
    \/ \E e \in Entries : RunEmoji(e)
    \/ \E e \in Entries : RunReadableHtml(e)
    \/ RunCoverHtml
    \/ RunCoverImage
    \/ RunEpub
    \/ EndInvocation
    \/ \E e \in Entries : EditEntry(e)
    \/ \E f \in InputFiles \ {book_yaml} : EditInput(f)
    \/ \E f \in TargetFiles : DeleteTarget(f)

Spec == Init /\ [][Next]_vars

(* ------------------------------------- loading and unsupported urls *)
\* A url on another host, and one without a scheme (urlparse finds no host).
OtherHostUrl ==
    <<"h", "t", "t", "p", "s", ":", "/", "/", "e", "x", "a", "m",
      "p", "l", "e", ".", "c", "o", "m", "/", "d", "o", "c", "u",
      "m", "e", "n", "t", "/", "d", "/", "x", "/", "e", "d", "i",
      "t">>
NoSchemeUrl ==
    <<"d", "o", "c", "s", ".", "g", "o", "o", "g", "l", "e", ".",
      "c", "o", "m", "/", "d", "o", "c", "u", "m", "e", "n", "t",
      "/", "d", "/", "x", "/", "e", "d", "i", "t">>
UrlInputs == {Str(DocsUrl), Str(OtherHostUrl), Str(NoSchemeUrl), None}

UrlContents ==
    {[e \in Entries |-> [DefaultContent[e] EXCEPT !.url = urls[e]]] :
        urls \in [Entries -> UrlInputs]}

\* Importing dodo.py: book = Book.from_yaml(book_yaml).  A ValidationError
\* leaves the module unloaded and no task is ever run.
LoadBook ==
    /\ phase = "loading"
    /\ IF Validates(content)
       THEN book' = from_yaml(content) /\ phase' = "idle"
       ELSE book' = book /\ phase' = "rejected"
    /\ UNCHANGED <<fs, clock, goal, out, prev, prevGoal, changes, runs, faults, declared, content, packaging>>

InitUrls ==
    /\ InitRunner
    /\ InitPackaging
    /\ phase = "loading"
    /\ content \in UrlContents
    /\ book = <<>>
    /\ declared = <<>>

\* The import and the first invocation after it.
NextUrls ==
    \/ LoadBook
    \/ \E g \in Goals : runs = 0 /\ StartInvocation(g)
    \/ RunEntries
    \/ \E e \in Entries : RunRawHtml(e)
    \/ \E e \in Entries : RunEmoji(e)
    \/ \E e \in Entries : RunReadableHtml(e)
    \/ RunCoverHtml
    \/ RunCoverImage
    \/ RunEpub
    \/ EndInvocation

SpecUrls == InitUrls /\ [][NextUrls]_vars

(* ------------------------------------------------------ record model *)
MaxTitleLen == 2     \* characters of an entry title

TitleChars == {"a", "A", " ", "!"}
Alnum == {"a", "A", "g", "x", "c", "o", "v", "e", "r", "p", "n"}

RECURSIVE SubWhitespace_each(_)
\* Mutant: every whitespace character becomes a hyphen of its own.
SubWhitespace_each(s) ==
    IF s = <<>> THEN <<>>
    ELSE IF Head(s) \in Whitespace THEN <<"-">> \o SubWhitespace_each(Tail(s))
    ELSE <<Head(s)>> \o SubWhitespace_each(Tail(s))

RECURSIVE SubWhitespace(_)
\* re.sub(r"\s+", "-", s)
SubWhitespace(s) ==
    IF s = <<>> THEN <<>>
    ELSE IF Head(s) \in Whitespace THEN <<"-">> \o SubWhitespace(Drop(s, Whitespace))
    ELSE <<Head(s)>> \o SubWhitespace(Tail(s))

IsSafe(c) == c \in Alnum \/ c \in {"_", "-"}

\* Entry.basename
basename(title) == RStrip(SelectSeq(SubWhitespace(LowerStr(title)), IsSafe))

\* A path is its parent directory and its final component.
Path(parent, name) == [parent |-> parent, name |-> name]
build_dir == Path(".", <<"b", "u", "i", "l", "d">>)

\* build_dir / name: an empty name adds no component
Join(dir, name) == IF name = <<>> THEN dir ELSE Path(dir.name, name)

\* PurePath.suffix: from the last dot of the final component, unless that
\* dot is its first or its last character
LastDot(name) ==
    LET dots == {i \in 1..Len(name) : name[i] = "."}
    IN  IF dots = {} THEN 0 ELSE CHOOSE i \in dots : \A j \in dots : j <= i
Suffix(name) ==
    LET i == LastDot(name)
    IN  IF 1 < i /\ i < Len(name) THEN SubSeq(name, i, Len(name)) ELSE <<>>

\* PurePath.with_suffix: the suffix replaces the one the name has, or is
\* appended when it has none
with_suffix(p, suffix) ==
    LET old == Suffix(p.name)
    IN  Path(p.parent, SubSeq(p.name, 1, Len(p.name) - Len(old)) \o suffix)

YamlSuffix == <<".", "y", "a", "m", "l">>
RawHtmlSuffix == <<".", "r", "a", "w", ".", "h", "t", "m", "l">>
ReadableHtmlSuffix == <<".", "r", "e", "a", "d", "a", "b", "l", "e", ".", "h", "t", "m", "l">>

\* Entry.metadata_target, raw_html_target, readable_html_target, emoji_target
metadata_path(entry) == with_suffix(Join(build_dir, basename(entry.title)), YamlSuffix)
raw_html_path(entry) == with_suffix(Join(build_dir, basename(entry.title)), RawHtmlSuffix)
readable_html_path(entry) ==
    with_suffix(Join(build_dir, basename(entry.title)), ReadableHtmlSuffix)
emoji_path(entry) == with_suffix(Join(build_dir, entry.emoji_name), Suffix(entry.emoji_url))

\* Book.cover_html_target, cover_image_target, epub_target
cover_html_path == Join(build_dir, <<"c", "o", "v", "e", "r", ".", "h", "t", "m", "l">>)
cover_image_path == Join(build_dir, <<"c", "o", "v", "e", "r", ".", "p", "n", "g">>)
epub_path == Join(build_dir, <<"b", "o", "o", "k", ".", "e", "p", "u", "b">>)

RECURSIVE StringsUpTo(_)
StringsUpTo(n) ==
    IF n = 0 THEN {<<>>}
    ELSE LET S == StringsUpTo(n - 1)
         IN  S \cup {Append(s, c) : s \in S, c \in TitleChars}

Titles == StringsUpTo(MaxTitleLen) \ {<<>>}
EmojiNames == {<<"g">>, <<"g", ".", "x">>, <<"c", "o", "v", "e", "r">>}
\* the final component of the path of emoji_url
EmojiUrlNames == {<<"g", ".", "p", "n", "g">>, <<"g">>}

EntryConfigs == [title : Titles, emoji_name : EmojiNames, emoji_url : EmojiUrlNames]

\* The targets the task generators declare for the loaded book, by slot.
Slots ==
    {<<k, i>> : k \in {"metadata", "raw_html", "readable_html", "emoji"}, i \in 1..Len(book)}
    \cup {<<"cover:html", 0>>, <<"cover:image", 0>>, <<"epub", 0>>}

DeclaredTarget(slot) ==
    CASE slot[1] = "metadata" -> metadata_path(book[slot[2]])
      [] slot[1] = "raw_html" -> raw_html_path(book[slot[2]])
      [] slot[1] = "readable_html" -> readable_html_path(book[slot[2]])
      [] slot[1] = "emoji" -> emoji_path(book[slot[2]])
      [] slot[1] = "cover:html" -> cover_html_path
      [] slot[1] = "cover:image" -> cover_image_path
      [] slot[1] = "epub" -> epub_path

\* Loading dodo.py: the task generators compute every task's targets.
DeclareTargets ==
    /\ phase = "idle"
    /\ declared = <<>>
    /\ declared' = [slot \in Slots |-> DeclaredTarget(slot)]
    /\ UNCHANGED <<build, book, content, packaging>>

InitTargets ==
    /\ InitBuild
    /\ book \in [1..NumEntries -> EntryConfigs]
    /\ declared = <<>>
    /\ content = <<>>

SpecTargets == InitTargets /\ [][DeclareTargets]_vars

(* ------------------------------------------- loading titles and tags *)
MaxTags == 2         \* tags of an entry
MaxLoadTitleLen == 3 \* characters of a title whose basename is derived

RECURSIVE StringsOver(_, _)
\* the strings of at most n characters of S
StringsOver(S, n) ==
    IF n = 0 THEN {<<>>}
    ELSE LET R == StringsOver(S, n - 1)
         IN  R \cup {Append(r, c) : r \in R, c \in S}

LoadTitles == StringsOver(TitleChars \cup {"-", "_"}, MaxLoadTitleLen) \ {<<>>}

RECURSIVE ListsOver(_, _)
\* the lists of at most n elements of S
ListsOver(S, n) ==
    IF n = 0 THEN {<<>>}
    ELSE LET R == ListsOver(S, n - 1)
         IN  R \cup {Append(r, x) : r \in R, x \in S}

TagNames == {<<"a">>, <<"b">>}
TagLists == ListsOver(TagNames, MaxTags)

\* The comma-separated forms of a tag list: a comma with optional
\* whitespace around it between the tags, optional whitespace at the start
\* and at the end of the string.
Separators == {<<",">>, <<",", " ">>, <<" ", ",">>, <<" ", ",", " ">>}
Pads == {<<>>, <<" ">>}
RECURSIVE JoinTags(_, _)
JoinTags(l, sep) ==
    IF l = <<>> THEN <<>>
    ELSE IF Len(l) = 1 THEN l[1]
    ELSE l[1] \o sep \o JoinTags(Tail(l), sep)
TagStrings(l) ==
    {lead \o JoinTags(l, sep) \o trail : sep \in Separators, lead \in Pads, trail \in Pads}

\* The documents loaded, of two entries: one whose title varies; one whose
\* first entry has its tags as a list and whose second entry has the same
\* tags as a string; one whose tags are null.
LoadContents ==
    {<<[DefaultContent[1] EXCEPT !.title = Str(t)], DefaultContent[1]>> : t \in LoadTitles}
    \cup UNION {{<<[DefaultContent[1] EXCEPT !.tags = List(l)],
                   [DefaultContent[1] EXCEPT !.tags = Str(str)]>> : str \in TagStrings(l)} :
                l \in TagLists}
    \cup {<<DefaultContent[1], [DefaultContent[1] EXCEPT !.tags = None]>>}

InitLoad ==
    /\ InitRunner
    /\ InitPackaging
    /\ phase = "loading"
    /\ content \in LoadContents
    /\ book = <<>>
    /\ declared = <<>>

\* The import: the book is loaded, then the task generators run.
NextLoad ==
    \/ LoadBook
    \/ DeclareTargets

SpecLoad == InitLoad /\ [][NextLoad]_vars

(* --------------------------------------------------------- packaging *)
\* sub in s
Contains(s, sub) ==
    \E i \in 0..(Len(s) - Len(sub)) : SubSeq(s, i + 1, i + Len(sub)) = sub

\* "cannotExportFile"
Marker ==
    <<"c", "a", "n", "n", "o", "t", "E", "x", "p", "o", "r", "t",
      "F", "i", "l", "e">>

\* Entry.chapter_title
chapter_title(entry) == <<":">> \o entry.emoji_name \o <<":", " ">> \o entry.title

Digit(d) == <<"0", "1", "2", "3", "4", "5", "6", "7", "8", "9">>[d + 1]
RECURSIVE Decimal(_)
Decimal(n) == IF n < 10 THEN <<Digit(n)>> ELSE Decimal(n \div 10) \o <<Digit(n % 10)>>
\* f"chapter_{chapter_number:02}.xhtml"
ChapterFileName(n) ==
    <<"c", "h", "a", "p", "t", "e", "r", "_">>
    \o (IF n < 10 THEN <<"0">> ELSE <<>>) \o Decimal(n)
    \o <<".", "x", "h", "t", "m", "l">>

\* Mutant: the tags flag is set when some tag occurs in the body.
EpubHtml_any_tag(n, entry, raw) ==
    LET raw_html_lower == LowerStr(raw)
    IN  [title |-> chapter_title(entry),
         file_name |-> ChapterFileName(n),
         emoji_file_name |-> emoji_path(entry).name,
         raw_html |-> raw,
         entry |-> entry,
         raw_html_includes_title |-> Contains(raw_html_lower, LowerStr(entry.title)),
         raw_html_includes_tags |->
             \E k \in DOMAIN entry.tags : Contains(raw_html_lower, LowerStr(entry.tags[k])),
         raw_html_failed_to_export |-> Contains(raw, Marker)]

\* The chapter make_epub builds for the entry at position n: the EpubHtml
\* item and the context its content is rendered with.
EpubHtml(n, entry, raw) ==
    LET raw_html_lower == LowerStr(raw)
    IN  [title |-> chapter_title(entry),
         file_name |-> ChapterFileName(n),
         emoji_file_name |-> emoji_path(entry).name,
         raw_html |-> raw,
         entry |-> entry,
         raw_html_includes_title |-> Contains(raw_html_lower, LowerStr(entry.title)),
         raw_html_includes_tags |->
             \A k \in DOMAIN entry.tags : Contains(raw_html_lower, LowerStr(entry.tags[k])),
         raw_html_failed_to_export |-> Contains(raw, Marker)]

\* The items of the spine that are not chapters: the cover page and 'nav'.
CoverPage == <<"c", "o", "v", "e", "r", ".", "x", "h", "t", "m", "l">>
Nav == <<"n", "a", "v">>

\* Mutant: the chapters follow the order in which the fetches completed.
make_epub_book_in_fetch_order(bk, files, order) ==
    LET chapters == [i \in DOMAIN order |-> EpubHtml(i, bk[order[i]], files[order[i]])]
    IN  [chapters |-> chapters,
         toc |-> chapters,
         spine |-> <<CoverPage, Nav>> \o [i \in DOMAIN chapters |-> chapters[i].file_name]]

\* make_epub, the document it assembles: a chapter for each entry of
\* book.entries in turn, toc = chapters, spine = [cover_page, 'nav'] + chapters
\* (the spine is given by the file names of its items).
make_epub_book(bk, files, order) ==
    LET chapters == [i \in DOMAIN bk |-> EpubHtml(i, bk[i], files[i])]
    IN  [chapters |-> chapters,
         toc |-> chapters,
         spine |-> <<CoverPage, Nav>> \o [i \in DOMAIN chapters |-> chapters[i].file_name]]

\* Mutant: only a successful response is written.
ResponseText_success_only(r) == IF r.status = 200 THEN r.text ELSE <<>>

\* response.text, whatever the status: download_html does not look at it
ResponseText(r) == r.text

\* f[x] set to v, x added to the domain when it is new
Put(f, x, v) == [y \in DOMAIN f \cup {x} |-> IF y = x THEN v ELSE f[y]]

\* download_html for entry e, with what it writes: the response text goes
\* to the entry's .raw.html.
DownloadHtml(e, r) ==
    /\ phase = "idle"
    /\ e \in DOMAIN book
    /\ e \notin DOMAIN raw_html
    /\ ~google_drive_file_id(book[e]).raised
    /\ response' = Put(response, e, r)
    /\ raw_html' = Put(raw_html, e, ResponseText(r))
    /\ completed' = Append(completed, e)
    /\ UNCHANGED <<build, book, declared, content, epub_book>>

\* write_epub, with what it assembles, once every entry's .raw.html is there.
WriteEpub ==
    /\ phase = "idle"
    /\ book # <<>>
    /\ DOMAIN raw_html = DOMAIN book
    /\ epub_book = <<>>
    /\ epub_book' = make_epub_book(book, raw_html, completed)
    /\ UNCHANGED <<build, book, declared, content, response, raw_html, completed>>

\* The entries, bodies and responses the packaging is explored with.
PackTitles == {<<"A", "b">>, <<"c">>}
PackTags == {<<>>, << <<"a">> >>, << <<"a">>, <<"c">> >>}
PackEntries(e) ==
    {[from_yaml(DefaultContent)[e] EXCEPT !.title = t, !.tags = g] : t \in PackTitles, g \in PackTags}
PackBooks == {bk \in [Entries -> UNION {PackEntries(e) : e \in Entries}] :
                 \A e \in Entries : bk[e] \in PackEntries(e)}
Pieces == {<<>>, <<"a", "B">>, Marker, LowerStr(Marker)}
Bodies == {p \o q : p, q \in Pieces}
Responses == [status : {200, 403}, text : Bodies]

InitPackage ==
    /\ InitBuild
    /\ book \in PackBooks
    /\ declared = <<>>
    /\ content = <<>>

NextPackage ==
    \/ \E e \in Entries : \E r \in Responses : DownloadHtml(e, r)
    \/ WriteEpub

SpecPackage == InitPackage /\ [][NextPackage]_vars

(* ------------------------------------------------------------ claims *)
FetchTasks == {task_raw_html(e) : e \in Entries} \cup {task_emoji(e) : e \in Entries}

\* Every selected task of the invocation before succeeded or was up to date.
PrevSuccessful ==
    /\ runs >= 2
    /\ \A t \in Selected(prevGoal) : Succeeded(prev[t])

\* C1: a task body has executed only if every task producing one of its
\* declared inputs succeeded or was up to date in the same invocation:
\* raw_html and emoji after entries, cover:image after cover:html, epub
\* after every raw_html, every emoji and cover:image.
C1_BodiesRunAfterProducers ==
    /\ \A t \in FetchTasks : Executed(out[t]) => Succeeded(out[task_entries])
    /\ Executed(out[task_cover_image]) => Succeeded(out[task_cover_html])
    /\ Executed(out[task_epub]) =>
          /\ \A t \in FetchTasks : Succeeded(out[t])
          /\ Succeeded(out[task_cover_image])

\* C1 witness: the epub body ran in an invocation in which the bodies of
\* entries, a fetch task and cover:image ran too.
C1_Witness ==
    /\ out[task_epub].res = "done"
    /\ out[task_entries].res = "done"
    /\ out[task_raw_html(1)].res = "done"
    /\ out[task_emoji(NumEntries)].res = "done"
    /\ out[task_cover_image].res = "done"

\* A declared input of the epub task is usable: it exists and the task
\* that produces it would not rebuild it (it is not older than its inputs).
InputValid(f) ==
    /\ Exists(f)
    /\ \A p \in Tasks : f \in Targets(p) => ~Stale(p)

\* C2: whenever the epub body has written book.epub, every declared input
\* it packaged existed and was not stale.
C2_NeverPackagedFromStaleInput ==
    (phase = "running" /\ out[task_epub].res = "done") =>
        \A f \in EpubFileDep : InputValid(f)

\* C3: after an invocation of the whole graph in which no collaborator
\* failed, a second invocation of the whole graph with no change between
\* them executes no task body.
C3_SecondRunExecutesNothing ==
    (/\ runs >= 2
     /\ phase = "running"
     /\ faults = 0
     /\ changes = {}
     /\ goal = "all"
     /\ prevGoal = "all"
     /\ \A t \in Tasks : prev[t].res # "pending") =>
        \A t \in Tasks : ~Executed(out[t])

\* The tasks of the invocation that produce f or depend on f, directly or
\* through the targets of other tasks.
RebuiltWith(f) ==
    {t \in Selected(goal) :
        f \in Targets(t) \/ \E p \in Prerequisites({t}) : f \in FileDep(p)}

EditedOnly(e) == changes = {Change("edit", F("entry", e))}
DeletedOnly(f) == changes = {Change("delete", f)}

\* C4: after a successful build, when only entry e was edited in book.yaml
\* and the build ran again without failure, the fetch bodies that executed
\* are those of e, and the epub body executed.
C4_OnlyEditedEntryRefetched ==
    \A e \in Entries :
        (Finished /\ PrevSuccessful /\ faults = 0 /\ EditedOnly(e)) =>
            /\ \A t \in FetchTasks : Executed(out[t]) <=> t.e = e
            /\ Executed(out[task_epub])

\* C5: after a successful build, when only target f was deleted and the
\* build ran again without failure, f is rebuilt and the bodies that
\* executed are those of the task producing f and of the tasks depending
\* on f.
C5_DeletedTargetRebuiltAlone ==
    \A f \in TargetFiles :
        (/\ Finished /\ PrevSuccessful /\ faults = 0 /\ DeletedOnly(f)
         /\ goal = "epub" /\ prevGoal = "epub") =>
            /\ Exists(f)
            /\ \A t \in Tasks : Executed(out[t]) <=> t \in RebuiltWith(f)

MissingOrOlder(t) ==
    \/ \E f \in Targets(t) : fs[f].st = "absent"
    \/ \E d \in FileDep(t) : \E f \in Targets(t) :
          /\ \A g \in Targets(t) : fs[f].mt <= fs[g].mt
          /\ fs[d].mt > fs[f].mt

C7_NoPartialTargetTakenAsValid ==
    \A t \in Tasks :
        Failed(out[t]) => ~(~Stale(t) /\ \E f \in Targets(t) : fs[f].st = "partial")

\* C8: for every configuration the declared target paths are pairwise
\* distinct: those of distinct entries, and those of an entry and of the
\* cover and the book.
C8_TargetsPairwiseDistinct ==
    declared # <<>> =>
        \A s1, s2 \in DOMAIN declared : s1 # s2 => declared[s1] # declared[s2]

\* C9: a renderer that exits nonzero makes cover:image a failed task, and
\* the epub body does not execute in that invocation.
C9_RenderFailureSurfaced ==
    out[task_cover_image].env = "exit_nonzero" =>
        /\ Failed(out[task_cover_image])
        /\ ~Executed(out[task_epub])

\* A fetch whose request failed is a failed task.
TransportErrorFails ==
    \A t \in FetchTasks : out[t].env = "transport_error" => Failed(out[t])

\* The epub body does not execute in an invocation in which a request failed.
TransportErrorBlocksEpub ==
    (\E t \in FetchTasks : out[t].env = "transport_error") => ~Executed(out[task_epub])

\* The fetch whose request failed in the invocation before is not up to
\* date: the runner executes it when it reaches it, and it has reached it
\* when the invocation has run to its end with the entries task succeeded.
TransportErrorRetried ==
    \A t \in FetchTasks :
        (runs >= 2 /\ prev[t].env = "transport_error") =>
            /\ out[t].res # "uptodate"
            /\ out[t].res = "pending" => Stale(t)
            /\ (Finished /\ Succeeded(out[task_entries])) => Executed(out[t])

\* C10: a fetch whose request fails is a failed task that leaves every file
\* as it was (its target is not created), is not run again in the
\* invocation and keeps the epub body from executing in it, and in the
\* next invocation it is not up to date, so its body executes again once
\* the runner reaches it.
C10_TransportErrorFailsAndIsRetried ==
    /\ [](TransportErrorFails /\ TransportErrorBlocksEpub /\ TransportErrorRetried)
    /\ [][\A t \in FetchTasks :
             /\ (out[t].res = "pending" /\ out'[t].env = "transport_error") => fs' = fs
             /\ (Failed(out[t]) /\ runs' = runs) => out'[t] = out[t]]_vars

\* C10 witness: the fetch that met a transport error in the invocation
\* before, which kept the epub task waiting, has executed again and has
\* created its target.
C10_Witness ==
    \E t \in FetchTasks :
        /\ prev[t].env = "transport_error"
        /\ prev[task_epub].res = "pending"
        /\ out[t].res = "done"
        /\ \A f \in Targets(t) : fs[f] = [st |-> "full", mt |-> clock]

\* A url the fetch step can use: a string whose host is the export platform.
SupportedUrl(v) == v.type = "str" /\ hostname(v.val) = DocsHost

\* C11: a configuration with an entry whose url is malformed or not on a
\* supported source is rejected when it is loaded: the import does not
\* succeed and no task body ever executes.
C11_UnsupportedUrlRejectedAtLoad ==
    (\E e \in Entries : ~SupportedUrl(content[e].url)) =>
        /\ phase \in {"loading", "rejected"}
        /\ \A t \in Tasks : ~Executed(out[t])

\* The loaded entry e has a url whose host is not docs.google.com.
UnexpectedHost(e) == book # <<>> /\ hostname(book[e].url) # DocsHost

\* No task but the raw_html task of an entry with an unexpected host fails
\* on the host, and that one fails on nothing else.
OnlyItsRawHtmlFails ==
    \A t \in Tasks :
        out[t].env = "assertion_error" <=>
            /\ t.kind = "raw_html"
            /\ UnexpectedHost(t.e)
            /\ Failed(out[t])
            /\ Executed(out[t])

\* The fetch tasks of the other entries (and the emoji task of the same
\* one) wait for the entries task alone.
OtherFetchesNotBlocked ==
    \A e \in Entries : \A t \in FetchTasks \ {task_raw_html(e)} :
        (/\ Failed(out[task_raw_html(e)])
         /\ phase = "running"
         /\ out[t].res = "pending"
         /\ Succeeded(out[task_entries])) => Ready(t)

\* C12: when the host of an entry's url is not docs.google.com, its raw_html
\* body raises on deriving the document identity, before a request is sent
\* and before the target is opened (no file changes, the target is never
\* created); no other task fails on it, and the fetch tasks of the other
\* entries stay runnable in the same invocation.
C12_UnexpectedHostFailsItsFetchOnly ==
    /\ [](/\ OnlyItsRawHtmlFails
          /\ OtherFetchesNotBlocked
          /\ \A e \in Entries : UnexpectedHost(e) => ~Exists(raw_html_target(e)))
    /\ [][\A e \in Entries :
             (UnexpectedHost(e) /\ out[task_raw_html(e)] # out'[task_raw_html(e)] /\ runs' = runs) =>
                 /\ out'[task_raw_html(e)] = Outcome("raised", "assertion_error")
                 /\ fs' = fs]_vars

\* C12 witness: the raw_html task of entry 1 failed on the host while, in
\* the same invocation, its emoji task and both fetch tasks of the other
\* entry executed and produced their targets.
C12_Witness ==
    /\ out[task_raw_html(1)] = Outcome("raised", "assertion_error")
    /\ \A t \in {task_emoji(1), task_raw_html(NumEntries), task_emoji(NumEntries)} :
          /\ out[t].res = "done"
          /\ \A f \in Targets(t) : fs[f].st = "full"

\* The invocation before failed at some task and nothing was changed since.
RerunAfterFailure ==
    /\ runs >= 2
    /\ phase = "running"
    /\ changes = {}
    /\ \E t \in Tasks : Failed(prev[t])

\* Task t completed in the invocation before and produced its targets.
ProducedBefore(t) == prev[t] = Outcome("done", "ok")

\* Its targets are as the invocation before wrote them.
TargetsIntact(t) == \A f \in Targets(t) : fs[f] = [st |-> "full", mt |-> clock - 1]

\* The tasks that failed in the invocation before, and their dependents.
FailedOrDependent == {t \in Tasks : \E p \in Prerequisites({t}) : Failed(prev[p])}

Packaged == epub_book # <<>>

\* C14: whatever the status of the response, the fetch does not fail: the
\* response body is the text of the .raw.html file, every entry answered
\* has its file so that packaging finds its inputs, and a chapter's
\* export-failed flag is true exactly when the response body contains the
\* text cannotExportFile.
C14_NonSuccessWrittenAndFlagged ==
    /\ \A e \in DOMAIN response : e \in DOMAIN raw_html /\ raw_html[e] = response[e].text
    /\ DOMAIN response = DOMAIN book => DOMAIN raw_html = DOMAIN book
    /\ Packaged =>
          \A i \in DOMAIN book :
              /\ epub_book.chapters[i].raw_html = response[i].text
              /\ epub_book.chapters[i].raw_html_failed_to_export <=>
                    \E k \in 1..(Len(response[i].text) - Len(Marker) + 1) :
                        SubSeq(response[i].text, k, k + Len(Marker) - 1) = Marker

\* C14 witness: the document is packaged from two non-success responses,
\* one with the marker after other content (flagged), one with the marker
\* in lower case only (not flagged).
C14_Witness ==
    /\ Packaged
    /\ \E i \in DOMAIN book :
          /\ response[i].status = 403
          /\ response[i].text = <<"a", "B">> \o Marker
          /\ epub_book.chapters[i].raw_html_failed_to_export
    /\ \E i \in DOMAIN book :
          /\ response[i].status = 403
          /\ response[i].text = LowerStr(Marker)
          /\ ~epub_book.chapters[i].raw_html_failed_to_export

\* C15: the packaged document has one chapter per entry, chapter i is
\* chapter_0i.xhtml and is built from the i-th entry and its raw HTML, the
\* table of contents is the chapter list, and the spine is the cover page,
\* the navigation page, then the chapters in entry order, whatever the
\* order in which the fetches completed.
C15_ChaptersInEntryOrder ==
    Packaged =>
        /\ DOMAIN epub_book.chapters = DOMAIN book
        /\ \A i \in DOMAIN book :
              /\ i < 10 => epub_book.chapters[i].file_name =
                    <<"c", "h", "a", "p", "t", "e", "r", "_", "0", Digit(i),
                      ".", "x", "h", "t", "m", "l">>
              /\ epub_book.chapters[i].entry = book[i]
              /\ epub_book.chapters[i].title = chapter_title(book[i])
              /\ epub_book.chapters[i].raw_html = raw_html[i]
        /\ epub_book.toc = epub_book.chapters
        /\ Len(epub_book.spine) = Len(book) + 2
        /\ epub_book.spine[1] = CoverPage
        /\ epub_book.spine[2] = Nav
        /\ \A i \in DOMAIN book : epub_book.spine[i + 2] = epub_book.chapters[i].file_name

\* C15 witness: the document is packaged after the last entry's fetch
\* completed first, for entries and bodies that differ.
C15_Witness ==
    /\ Packaged
    /\ completed[1] = NumEntries
    /\ book[1] # book[NumEntries]
    /\ raw_html[1] # raw_html[NumEntries]

\* t occurs in body, letter case ignored.
OccursIgnoringCase(t, body) ==
    \E k \in 0..(Len(body) - Len(t)) : \A j \in 1..Len(t) : Lower(body[k + j]) = Lower(t[j])

\* C18: a chapter's title-present flag is true exactly when the entry's
\* title occurs in the body case-insensitively, and its tags-present flag
\* exactly when every tag of the entry does (true for no tags).
C18_TitleAndAllTagsFlags ==
    Packaged =>
        \A i \in DOMAIN book :
            /\ epub_book.chapters[i].raw_html_includes_title <=>
                  OccursIgnoringCase(book[i].title, raw_html[i])
            /\ epub_book.chapters[i].raw_html_includes_tags <=>
                  \A k \in DOMAIN book[i].tags : OccursIgnoringCase(book[i].tags[k], raw_html[i])

\* C18 witness: a packaged chapter whose body has the title in another
\* letter case and one of its two tags only: title-present is true,
\* tags-present is false; and a chapter without tags, tags-present true.
C18_Witness ==
    /\ Packaged
    /\ \E i \in DOMAIN book :
          /\ book[i].title = <<"A", "b">>
          /\ book[i].tags = << <<"a">>, <<"c">> >>
          /\ raw_html[i] = <<"a", "B">>
          /\ epub_book.chapters[i].raw_html_includes_title
          /\ ~epub_book.chapters[i].raw_html_includes_tags
    /\ \E i \in DOMAIN book :
          /\ book[i].tags = <<>>
          /\ epub_book.chapters[i].raw_html_includes_tags

Loaded == phase = "idle" /\ book # <<>>

\* C16: tags given as a comma-separated string (optional whitespace around
\* the commas and at the start and the end of the string) are normalized
\* to the same sequence as the same tags given as a list.
C16_StringAndListTagsNormalizeAlike ==
    (Loaded /\ content[1].tags.type = "list" /\ content[2].tags.type = "str") =>
        /\ book[1].tags = content[1].tags.val
        /\ book[2].tags = book[1].tags

\* The number of maximal runs of whitespace in s.
WhitespaceRuns(s) ==
    Cardinality({i \in 1..Len(s) : s[i] \in Whitespace /\ (i = 1 \/ s[i - 1] \notin Whitespace)})
Hyphens(s) == Cardinality({i \in 1..Len(s) : s[i] = "-"})

\* C17: the basename of a title is in lower case, holds only alphanumeric
\* characters, "_" and "-", has one hyphen for every maximal run of
\* whitespace of the title (besides the title's own hyphens) and no
\* whitespace, and is its own basename.
C17_BasenameSafeAndIdempotent ==
    Loaded =>
        \A i \in DOMAIN book :
            LET b == basename(book[i].title)
            IN  /\ \A k \in 1..Len(b) :
                      /\ b[k] = Lower(b[k])
                      /\ b[k] \in Alnum \cup {"_", "-"}
                      /\ b[k] \notin Whitespace
                /\ Hyphens(b) = WhitespaceRuns(book[i].title) + Hyphens(book[i].title)
                /\ basename(b) = b

\* C17 witness: the targets are declared for a title with an upper-case
\* letter, a run of two whitespace characters and nothing else.
C17_Witness ==
    /\ Loaded
    /\ declared # <<>>
    /\ book[1].title = <<"A", " ", " ">>
    /\ declared[<<"metadata", 1>>].name = <<"a", "-">> \o YamlSuffix

\* C19: a build of the whole graph in which no collaborator failed has
\* executed every readable_html body successfully after the entry's
\* raw_html task and has produced the entry's .readable.html; and a build
\* of book.epub executes only prerequisites of the epub task.
C19_ReadableHtmlProduced ==
    /\ (Finished /\ goal = "all" /\ faults = 0) =>
          \A e \in Entries :
              Succeeded(out[task_raw_html(e)]) =>
                  /\ Succeeded(out[task_readable_html(e)])
                  /\ Exists(readable_html_target(e))
    /\ (phase = "running" /\ goal = "epub") =>
          \A t \in Tasks : Executed(out[t]) => t \in Prerequisites({task_epub})

\* The files the targets of t are computed from: what its body reads and
\* what the bodies of the tasks before it read.
ComputedFrom(t) == UNION {BodyReads(p) : p \in Prerequisites({t})}

\* C20: every file a target was computed from is accounted for by the
\* declared inputs: when, after a complete build of book.epub, one input
\* file (a template, the stylesheet, the background texture) is edited and
\* the build runs again without failure, every task whose targets were
\* computed from that file has executed.
C20_ReadsAreDeclared ==
    \A f \in InputFiles :
        (/\ Finished /\ PrevSuccessful /\ faults = 0
         /\ goal = "epub" /\ prevGoal = "epub"
         /\ changes = {Change("edit", f)}) =>
            \A t \in Selected(goal) : f \in ComputedFrom(t) => Executed(out[t])

====
